---- MODULE Spec2Model ----
(***************************************************************************)
(* The chat screen of the insurance assistant: ChatPage (message list,     *)
(* isLoading, the initial-query effect, handleSendMessage,                 *)
(* handleFileUpload, clearHistory), the ChatInput form it mounts (typed    *)
(* text, selected file, simulated upload progress) and the two backend     *)
(* requests of ApiService, /process-query and /upload-document, whose      *)
(* responses arrive in any order or never; the header's export dialog      *)
(* (ExportModal), the bulk action bar and the clock the message ids are    *)
(* taken from.                                                             *)
(***************************************************************************)
EXTENDS Integers, Sequences, FiniteSets, TLC

(* ------------------------------ bounds -------------------------------- *)

\* requests issued in one run, /process-query and /upload-document together
MaxRequests == 2

\* the milliseconds the clock of SpecIds runs through
MaxClock == 2

(* ------------------------- program constants -------------------------- *)

characterLimit == 500
IntervalMs == 100
TimeoutMs == 500
ProgressStep == 10
ProgressCap == 90
ProgressDone == 100
MaxFileSize == 10 * 1024 * 1024
ExportSteps == 4
StepPercent == 25

allowedTypes ==
  { "application/pdf",
    "application/msword",
    "application/vnd.openxmlformats-officedocument.wordprocessingml.document",
    "text/plain",
    "image/jpeg",
    "image/png" }

(* ------------------------------ inputs -------------------------------- *)

\* a text is a sequence of characters; " " stands for every white space.
\* The texts typed into the form: empty, blank, not blank
Texts == { <<>>, <<" ">>, <<"a">> }

\* what useSearchParams can return: no `query` parameter, an empty one, or
\* one with white space around it (blank or not)
Pad(t) == <<" ">> \o t \o <<" ">>
UrlParams ==
  {<<>>, << <<>> >>} \cup { <<Pad(t)>> : t \in Texts \ {<<>>} }

\* the files a user can pick: allowed and refused types, sizes around the limit
PickTypes == {"application/pdf", "application/zip"}
PickSizes == {MaxFileSize, MaxFileSize + 1}
Files == [name : {"doc"}, type : PickTypes, size : PickSizes]

\* the backend's decisions (optional fields are absent keys)
Responses ==
  { [decision |-> "approved", justification |-> "covered", amount |-> 1200,
     referenced_clauses |-> <<"c1">>, confidence_score |-> 925,
     additional_info |-> [sources |-> <<"s1">>]],
    [decision |-> "denied", justification |-> "excluded"] }

\* the decisions formatInsuranceResponse is given: each optional field absent,
\* present but empty or zero, or filled; the score on either side of 0.7, 0.9
Opt(S, field, values) == S \cup { r @@ (field :> v) : r \in S, v \in values }

InsuranceResponses ==
  Opt(Opt(Opt(Opt([decision : {"approved", "denied"},
                   justification : {"covered", "excluded"}],
                  "amount", {0 - 500, 0, 1200}),
              "referenced_clauses", {<<>>, <<"c1">>, <<"c1", "c2">>}),
          "confidence_score", {0, 500, 700, 925}),
      "additional_info",
      {[clauses |-> <<"k">>], [sources |-> <<>>], [sources |-> <<"s1">>]})

\* what fetch brings back from /upload-document: the status is 2xx or not, the
\* body is <<>> when it does not parse as JSON and <<r>> when it parses to r.
\* A fetch that fails altogether counts as a response that is not ok
UploadBodies == [success : BOOLEAN, message : {"stored"}]
HttpResponses ==
  [ok : BOOLEAN, body : {<<>>} \cup { <<r>> : r \in UploadBodies }]

\* the two answers the chat page is run with: stored, and a server error
HttpSample ==
  { [ok |-> TRUE, body |-> <<[success |-> TRUE, message |-> "stored"]>>],
    [ok |-> FALSE, body |-> <<>>] }

\* null, for selectedFile
Null == [null |-> TRUE]

\* the last step called none of the handlers that `call` records
NoCall == [fn |-> "none"]

(* ----------------------------- pure helpers --------------------------- *)

RECURSIVE TrimStart(_)
TrimStart(s) ==
  IF s # <<>> /\ Head(s) = " " THEN TrimStart(Tail(s)) ELSE s

RECURSIVE TrimEnd(_)
TrimEnd(s) ==
  IF s # <<>> /\ s[Len(s)] = " " THEN TrimEnd(SubSeq(s, 1, Len(s) - 1)) ELSE s

\* String.prototype.trim
Trim(s) == TrimEnd(TrimStart(s))

\* JSON.stringify({ query })
processQueryBody(query) == [query |-> query]

\* Math.round(confidence_score * 100), the score held in thousandths
confidencePercent(score) == (score + 5) \div 10

confidenceLevel(score) ==
  IF score >= 900 THEN "High Confidence"
  ELSE IF score >= 700 THEN "Moderate Confidence" ELSE "Low Confidence"

Has(data, field) == field \in DOMAIN data

\* formatInsuranceResponse showing an amount of zero too
formatInsuranceResponse_anyAmount(data) ==
  <<"**Decision:** ", data.decision>>
  \o (IF Has(data, "amount") /\ data.amount >= 0
        THEN <<"**Coverage Amount:** $", ToString(data.amount)>> ELSE <<>>)
  \o <<"**Analysis:**", data.justification>>
  \o (IF Has(data, "referenced_clauses") /\ Len(data.referenced_clauses) > 0
        THEN <<"**Policy References:**">> \o data.referenced_clauses ELSE <<>>)
  \o (IF Has(data, "confidence_score") /\ data.confidence_score # 0
        THEN <<"**Assessment Confidence:** ",
               confidenceLevel(data.confidence_score),
               ToString(confidencePercent(data.confidence_score))>>
        ELSE <<>>)
  \o (IF Has(data, "additional_info") /\ Has(data.additional_info, "sources")
          /\ Len(data.additional_info.sources) > 0
        THEN <<"**Documentation Reviewed:**">> \o data.additional_info.sources
        ELSE <<>>)
  \o <<"*This analysis is based on your current policy terms and conditions.*">>

\* formatInsuranceResponse leaving the sources out of a decision it has little
\* confidence in
formatInsuranceResponse_hedged(data) ==
  <<"**Decision:** ", data.decision>>
  \o (IF Has(data, "amount") /\ data.amount > 0
        THEN <<"**Coverage Amount:** $", ToString(data.amount)>> ELSE <<>>)
  \o <<"**Analysis:**", data.justification>>
  \o (IF Has(data, "referenced_clauses") /\ Len(data.referenced_clauses) > 0
        THEN <<"**Policy References:**">> \o data.referenced_clauses ELSE <<>>)
  \o (IF Has(data, "confidence_score") /\ data.confidence_score # 0
        THEN <<"**Assessment Confidence:** ",
               confidenceLevel(data.confidence_score),
               ToString(confidencePercent(data.confidence_score))>>
        ELSE <<>>)
  \o (IF Has(data, "additional_info") /\ Has(data.additional_info, "sources")
          /\ Len(data.additional_info.sources) > 0
          /\ (Has(data, "confidence_score") => data.confidence_score >= 700)
        THEN <<"**Documentation Reviewed:**">> \o data.additional_info.sources
        ELSE <<>>)
  \o <<"*This analysis is based on your current policy terms and conditions.*">>

\* the text of a decision, as the sequence of its pieces
formatInsuranceResponse(data) ==
  <<"**Decision:** ", data.decision>>
  \o (IF Has(data, "amount") /\ data.amount > 0
        THEN <<"**Coverage Amount:** $", ToString(data.amount)>> ELSE <<>>)
  \o <<"**Analysis:**", data.justification>>
  \o (IF Has(data, "referenced_clauses") /\ Len(data.referenced_clauses) > 0
        THEN <<"**Policy References:**">> \o data.referenced_clauses ELSE <<>>)
  \o (IF Has(data, "confidence_score") /\ data.confidence_score # 0
        THEN <<"**Assessment Confidence:** ",
               confidenceLevel(data.confidence_score),
               ToString(confidencePercent(data.confidence_score))>>
        ELSE <<>>)
  \o (IF Has(data, "additional_info") /\ Has(data.additional_info, "sources")
          /\ Len(data.additional_info.sources) > 0
        THEN <<"**Documentation Reviewed:**">> \o data.additional_info.sources
        ELSE <<>>)
  \o <<"*This analysis is based on your current policy terms and conditions.*">>

(* ------------------------------- state -------------------------------- *)

VARIABLES
  messages,               \* ChatPage: the message list
  isLoading,              \* ChatPage: a query is being awaited
  initialQueryProcessed,  \* ChatPage: the ref guarding the initial query
  searchParams,           \* the URL's `query` parameter: <<>> or <<text>>
  mounted,                \* ChatPage's effects have run once
  input,                  \* ChatInput: the typed text
  selectedFile,           \* ChatInput: the attached file or Null
  isUploading,            \* ChatInput
  uploadProgress,         \* ChatInput
  fileInputValue,         \* the file <input> element's value
  progressInterval,       \* the setInterval of handleFileUpload is active
  resetTimer,             \* <<>>, or <<n>>: n periods of 100 ms since setTimeout
  queries,                \* the /process-query requests, in order of issue
  uploads,                \* the /upload-document requests, in order of issue
  showExportModal,        \* ChatHeader: the export dialog is open
  isExporting,            \* ExportModal
  exportProgress,         \* ExportModal
  exportComplete,         \* ExportModal
  exportStep,             \* <<>>, or <<i>>: handleExport awaits the i-th pause
  closeTimer,             \* the setTimeout that closes the dialog is armed
  clipboard,              \* what navigator.clipboard holds
  now,                    \* Date.now(), in ms since the page was opened
  homeInput,              \* Home: the typed text (its `input`)
  isNavigating,           \* Home
  loadingQuery,           \* Home: <<>> for null, or <<query>>
  goToChatPaused,         \* the queries of the goToChat calls in their pause
  pushed,                 \* the URLs given to router.push, in order
  toast,                  \* the toast shown by the last step, or "none"
  call                    \* the handler called in the last step, with its
                          \* argument

chatPage == <<messages, isLoading, initialQueryProcessed, searchParams, mounted>>
chatInput == <<input, selectedFile, isUploading, uploadProgress,
               fileInputValue, progressInterval, resetTimer>>
network == <<queries, uploads>>
exportModal == <<showExportModal, isExporting, exportProgress, exportComplete,
                 exportStep, closeTimer>>
home == <<homeInput, isNavigating, loadingQuery, goToChatPaused, pushed>>
vars == <<chatPage, chatInput, network, exportModal, clipboard, now, home,
          toast, call>>

Init ==
  /\ messages = <<>>
  /\ isLoading = FALSE
  /\ initialQueryProcessed = FALSE
  /\ searchParams \in UrlParams
  /\ mounted = FALSE
  /\ input = <<>>
  /\ selectedFile = Null
  /\ isUploading = FALSE
  /\ uploadProgress = 0
  /\ fileInputValue = ""
  /\ progressInterval = FALSE
  /\ resetTimer = <<>>
  /\ queries = <<>>
  /\ uploads = <<>>
  /\ showExportModal = FALSE
  /\ isExporting = FALSE
  /\ exportProgress = 0
  /\ exportComplete = FALSE
  /\ exportStep = <<>>
  /\ closeTimer = FALSE
  /\ clipboard = <<>>
  /\ now = 0
  /\ homeInput = <<>>
  /\ isNavigating = FALSE
  /\ loadingQuery = <<>>
  /\ goToChatPaused = <<>>
  /\ pushed = <<>>
  /\ toast = "none"
  /\ call = NoCall

(* ------------------------------ messages ------------------------------ *)

\* `req` is not a field of Message: it records which request a message
\* belongs to (0 for an upload confirmation)
userMessage(c, k) == [id |-> now, role |-> "user", content |-> c, req |-> k]

\* the reply keeping the mandatory fields of the decision only
aiMessage_partial(response, k) ==
  [id |-> now + 1, role |-> "assistant", content |-> formatInsuranceResponse(response),
   insuranceData |-> [decision |-> response.decision,
                      justification |-> response.justification],
   req |-> k]

aiMessage(response, k) ==
  [id |-> now + 1, role |-> "assistant", content |-> formatInsuranceResponse(response),
   insuranceData |-> response, req |-> k]

errorMessage(k) ==
  [id |-> now + 1, role |-> "assistant",
   content |-> <<"I apologize, but I'm experiencing technical difficulties",
                 "**Error Reference:** ERR-">>,
   req |-> k]

uploadMessage(file) ==
  [id |-> now, role |-> "assistant",
   content |-> <<"**Document Upload Successful**", file.name>>,
   req |-> 0]

(* ------------------------------ ApiService ---------------------------- *)

\* `replies`, `cleared` and `response` are history: the assistant messages
\* appended for the request, whether clearHistory ran after it was sent, and
\* <<>> or <<r>>, r being the decision the backend answered with
processQuery(query) ==
  [endpoint |-> "/process-query", method |-> "POST",
   body |-> processQueryBody(query),
   status |-> "pending", replies |-> 0, cleared |-> FALSE, response |-> <<>>]

\* `http` is history: <<>>, or <<h>>, h being what fetch brought back
uploadDocument(file) ==
  [endpoint |-> "/upload-document", method |-> "POST",
   body |-> [file |-> file], status |-> "pending", http |-> <<>>]

\* uploadDocument after its await on fetch: it throws unless response.ok, and
\* response.json() rejects when the body does not parse
uploadDocumentResolves(http) == http.ok /\ http.body # <<>>

Pending(reqs) == { k \in 1..Len(reqs) : reqs[k].status = "pending" }

(* ------------------------------ ChatPage ------------------------------ *)

\* handleSendMessage passing the content to processInsuranceQuery as it came
handleSendMessage_untrimmed(content) ==
  /\ call' = [fn |-> "handleSendMessage", content |-> content]
  /\ IF Trim(content) = <<>>
       THEN UNCHANGED <<messages, isLoading, queries>>
       ELSE /\ Len(queries) + Len(uploads) < MaxRequests
            /\ messages' = Append(messages,
                                  userMessage(Trim(content), Len(queries) + 1))
            /\ isLoading' = TRUE
            /\ queries' = Append(queries, processQuery(content))

\* handleSendMessage without its check of the content
handleSendMessage_unguarded(content) ==
  /\ call' = [fn |-> "handleSendMessage", content |-> content]
  /\ Len(queries) + Len(uploads) < MaxRequests
  /\ messages' = Append(messages, userMessage(Trim(content), Len(queries) + 1))
  /\ isLoading' = TRUE
  /\ queries' = Append(queries, processQuery(Trim(content)))

\* up to the await: the user message, isLoading and the request
handleSendMessage(content) ==
  /\ call' = [fn |-> "handleSendMessage", content |-> content]
  /\ IF Trim(content) = <<>>
       THEN UNCHANGED <<messages, isLoading, queries>>
       ELSE /\ Len(queries) + Len(uploads) < MaxRequests
            /\ messages' = Append(messages,
                                  userMessage(Trim(content), Len(queries) + 1))
            /\ isLoading' = TRUE
            /\ queries' = Append(queries, processQuery(Trim(content)))

\* the effect without its ref: it sends on every run
initialQueryEffect_unguarded(sp) ==
  IF sp # <<>> /\ sp[1] # <<>>
    THEN /\ initialQueryProcessed' = TRUE
         /\ handleSendMessage(sp[1])
    ELSE /\ UNCHANGED <<initialQueryProcessed, messages, isLoading, queries>>
         /\ call' = NoCall

\* the effect on [searchParams]; sp is what useSearchParams returned
initialQueryEffect(sp) ==
  IF sp # <<>> /\ sp[1] # <<>> /\ ~initialQueryProcessed
    THEN /\ initialQueryProcessed' = TRUE
         /\ handleSendMessage(sp[1])
    ELSE /\ UNCHANGED <<initialQueryProcessed, messages, isLoading, queries>>
         /\ call' = NoCall

Mount ==
  /\ ~mounted
  /\ mounted' = TRUE
  /\ initialQueryEffect(searchParams)
  /\ toast' = "none"
  /\ UNCHANGED <<searchParams, chatInput, uploads>>
  /\ UNCHANGED <<exportModal, clipboard, now>>
  /\ UNCHANGED home

SearchParamsChange(sp) ==
  /\ mounted
  /\ searchParams' = sp
  /\ initialQueryEffect(sp)
  /\ toast' = "none"
  /\ UNCHANGED <<mounted, chatInput, uploads>>
  /\ UNCHANGED <<exportModal, clipboard, now>>
  /\ UNCHANGED home

\* the continuation of handleSendMessage after the await, try branch
QueryResolved(k, response) ==
  /\ k \in Pending(queries)
  /\ messages' = Append(messages, aiMessage(response, k))
  /\ isLoading' = FALSE
  /\ queries' = [queries EXCEPT ![k].status = "ok", ![k].replies = @ + 1,
                                ![k].response = <<response>>]
  /\ toast' = "none"
  /\ call' = NoCall
  /\ UNCHANGED <<initialQueryProcessed, searchParams, mounted, chatInput, uploads>>
  /\ UNCHANGED <<exportModal, clipboard, now>>
  /\ UNCHANGED home

\* the catch branch without the finally block
QueryRejected_noFinally(k) ==
  /\ k \in Pending(queries)
  /\ messages' = Append(messages, errorMessage(k))
  /\ queries' = [queries EXCEPT ![k].status = "failed", ![k].replies = @ + 1]
  /\ toast' = "error: Unable to process your request at this time"
  /\ call' = NoCall
  /\ UNCHANGED <<isLoading, initialQueryProcessed, searchParams, mounted,
                 chatInput, uploads>>
  /\ UNCHANGED <<exportModal, clipboard, now>>
  /\ UNCHANGED home

\* the catch branch only showing the toast
QueryRejected_silent(k) ==
  /\ k \in Pending(queries)
  /\ isLoading' = FALSE
  /\ queries' = [queries EXCEPT ![k].status = "failed"]
  /\ toast' = "error: Unable to process your request at this time"
  /\ call' = NoCall
  /\ UNCHANGED <<messages, initialQueryProcessed, searchParams, mounted,
                 chatInput, uploads>>
  /\ UNCHANGED <<exportModal, clipboard, now>>
  /\ UNCHANGED home

\* the catch branch taking the optimistic user message back
QueryRejected_rollback(k) ==
  /\ k \in Pending(queries)
  /\ messages' = Append(SelectSeq(messages, LAMBDA m : m.req # k),
                        errorMessage(k))
  /\ isLoading' = FALSE
  /\ queries' = [queries EXCEPT ![k].status = "failed", ![k].replies = @ + 1]
  /\ toast' = "error: Unable to process your request at this time"
  /\ call' = NoCall
  /\ UNCHANGED <<initialQueryProcessed, searchParams, mounted, chatInput, uploads>>
  /\ UNCHANGED <<exportModal, clipboard, now>>
  /\ UNCHANGED home

\* the continuation of handleSendMessage after the await, catch branch
QueryRejected(k) ==
  /\ k \in Pending(queries)
  /\ messages' = Append(messages, errorMessage(k))
  /\ isLoading' = FALSE
  /\ queries' = [queries EXCEPT ![k].status = "failed", ![k].replies = @ + 1]
  /\ toast' = "error: Unable to process your request at this time"
  /\ call' = NoCall
  /\ UNCHANGED <<initialQueryProcessed, searchParams, mounted, chatInput, uploads>>
  /\ UNCHANGED <<exportModal, clipboard, now>>
  /\ UNCHANGED home

clearHistory ==
  /\ mounted
  /\ messages' = <<>>
  /\ initialQueryProcessed' = FALSE
  /\ queries' = [k \in 1..Len(queries) |-> [queries[k] EXCEPT !.cleared = TRUE]]
  /\ toast' = "success: Conversation history cleared"
  /\ call' = NoCall
  /\ UNCHANGED <<isLoading, searchParams, mounted, chatInput, uploads>>
  /\ UNCHANGED <<exportModal, clipboard, now>>
  /\ UNCHANGED home

(* ------------------------------ ChatInput ----------------------------- *)

\* the `disabled` prop ChatPage passes, joined with isUploading
fieldDisabled == isLoading \/ isUploading

submitDisabled == fieldDisabled \/ (Trim(input) = <<>> /\ selectedFile = Null)

suggestedQuestions == { <<"a">> }

InputChange(t) ==
  /\ mounted /\ ~fieldDisabled
  /\ t # input
  /\ input' = IF Len(t) <= characterLimit THEN t ELSE input
  /\ toast' = "none"
  /\ call' = NoCall
  /\ UNCHANGED <<chatPage, selectedFile, isUploading, uploadProgress,
                 fileInputValue, progressInterval, resetTimer, network>>
  /\ UNCHANGED <<exportModal, clipboard, now>>
  /\ UNCHANGED home

handleSuggestionClick(s) ==
  /\ mounted
  /\ s # input
  /\ input' = s
  /\ toast' = "none"
  /\ call' = NoCall
  /\ UNCHANGED <<chatPage, selectedFile, isUploading, uploadProgress,
                 fileInputValue, progressInterval, resetTimer, network>>
  /\ UNCHANGED <<exportModal, clipboard, now>>
  /\ UNCHANGED home

\* the validation without the type check
fileAccepted_anyType(file) == ~(file.size > MaxFileSize)

\* the validation with >= for >
fileAccepted_below(file) ==
  /\ file.type \in allowedTypes
  /\ ~(file.size >= MaxFileSize)

fileAccepted(file) ==
  /\ file.type \in allowedTypes
  /\ ~(file.size > MaxFileSize)

\* handleFileSelect dropping the earlier selection when it refuses a file
handleFileSelect_dropping(file) ==
  /\ mounted /\ ~fieldDisabled
  /\ IF fileAccepted(file)
       THEN /\ selectedFile' = file
            /\ fileInputValue' = file.name
            /\ toast' = "success: File selected"
       ELSE /\ selectedFile' = Null
            /\ fileInputValue' = ""
            /\ toast' = "error: file refused"
  /\ call' = [fn |-> "handleFileSelect", file |-> file]
  /\ UNCHANGED <<chatPage, input, isUploading, uploadProgress,
                 progressInterval, resetTimer, network>>
  /\ UNCHANGED <<exportModal, clipboard, now>>
  /\ UNCHANGED home

\* the browser has put the picked file into the element before onChange runs
handleFileSelect(file) ==
  /\ mounted /\ ~fieldDisabled
  /\ IF fileAccepted(file)
       THEN /\ selectedFile' = file
            /\ fileInputValue' = file.name
            /\ toast' = "success: File selected"
       ELSE /\ selectedFile' = selectedFile
            /\ fileInputValue' = ""
            /\ toast' = IF file.type \notin allowedTypes
                          THEN "error: Please upload PDF, Word document, text file, or image"
                          ELSE "error: File size must be less than 10MB"
  /\ call' = [fn |-> "handleFileSelect", file |-> file]
  /\ UNCHANGED <<chatPage, input, isUploading, uploadProgress,
                 progressInterval, resetTimer, network>>
  /\ UNCHANGED <<exportModal, clipboard, now>>
  /\ UNCHANGED home

removeSelectedFile ==
  /\ mounted /\ selectedFile # Null /\ ~isUploading
  /\ selectedFile' = Null
  /\ fileInputValue' = ""
  /\ toast' = "none"
  /\ call' = NoCall
  /\ UNCHANGED <<chatPage, input, isUploading, uploadProgress,
                 progressInterval, resetTimer, network>>
  /\ UNCHANGED <<exportModal, clipboard, now>>
  /\ UNCHANGED home

\* ChatInput.handleFileUpload up to the await: onFileUpload runs
\* ChatPage.handleFileUpload up to its own await on uploadDocument
ChatInput_handleFileUpload ==
  IF selectedFile = Null
    THEN UNCHANGED <<isUploading, uploadProgress, progressInterval, uploads>>
    ELSE /\ Len(queries') + Len(uploads) < MaxRequests
         /\ isUploading' = TRUE
         /\ uploadProgress' = 0
         /\ progressInterval' = TRUE
         /\ uploads' = Append(uploads, uploadDocument(selectedFile))

\* handleSubmit leaving the file for a later submit when there is a text
handleSubmit_textOnly ==
  IF selectedFile # Null /\ Trim(input) = <<>>
    THEN /\ call' = NoCall
         /\ UNCHANGED <<messages, isLoading, queries, input>>
         /\ ChatInput_handleFileUpload
    ELSE IF Trim(input) = <<>>
      THEN /\ call' = [fn |-> "handleSubmit"]
           /\ UNCHANGED <<messages, isLoading, queries, input, isUploading,
                          uploadProgress, progressInterval, uploads>>
      ELSE /\ handleSendMessage(Trim(input))
           /\ input' = <<>>
           /\ UNCHANGED <<isUploading, uploadProgress, progressInterval, uploads>>

handleSubmit ==
  IF selectedFile # Null /\ Trim(input) = <<>>
    THEN /\ call' = NoCall
         /\ UNCHANGED <<messages, isLoading, queries, input>>
         /\ ChatInput_handleFileUpload
    ELSE IF Trim(input) = <<>>
      THEN /\ call' = [fn |-> "handleSubmit"]
           /\ UNCHANGED <<messages, isLoading, queries, input, isUploading,
                          uploadProgress, progressInterval, uploads>>
      ELSE /\ handleSendMessage(Trim(input))
           /\ input' = <<>>
           /\ ChatInput_handleFileUpload

SubmitClick ==
  /\ mounted /\ ~submitDisabled
  /\ handleSubmit
  /\ toast' = "none"
  /\ UNCHANGED <<initialQueryProcessed, searchParams, mounted, selectedFile,
                 fileInputValue, resetTimer>>
  /\ UNCHANGED <<exportModal, clipboard, now>>
  /\ UNCHANGED home

handleKeyDown ==
  /\ mounted /\ ~fieldDisabled
  /\ Trim(input) # <<>>
  /\ handleSubmit
  /\ toast' = "none"
  /\ UNCHANGED <<initialQueryProcessed, searchParams, mounted, selectedFile,
                 fileInputValue, resetTimer>>
  /\ UNCHANGED <<exportModal, clipboard, now>>
  /\ UNCHANGED home

\* the form's submit event, however it is raised: handleSubmit checks the text
\* and the file itself
FormSubmit ==
  /\ mounted
  /\ handleSubmit
  /\ toast' = "none"
  /\ UNCHANGED <<initialQueryProcessed, searchParams, mounted, selectedFile,
                 fileInputValue, resetTimer>>
  /\ UNCHANGED <<exportModal, clipboard, now>>
  /\ UNCHANGED home

\* ChatInput.handleFileUpload after the await on onFileUpload
uploadContinuation(rejected) ==
  /\ IF rejected
       THEN UNCHANGED <<uploadProgress, selectedFile, fileInputValue>>
       ELSE /\ uploadProgress' = ProgressDone
            /\ selectedFile' = Null
            /\ fileInputValue' = ""
  /\ resetTimer' = <<0>>

\* the try branch putting the confirmation in front of the list
UploadResolved_prepend(u, http) ==
  /\ u \in Pending(uploads)
  /\ uploadDocumentResolves(http)
  /\ messages' = <<uploadMessage(uploads[u].body.file)>> \o messages
  /\ uploads' = [uploads EXCEPT ![u].status = "ok", ![u].http = <<http>>]
  /\ uploadContinuation(FALSE)
  /\ toast' = "success: Document uploaded successfully"
  /\ call' = NoCall
  /\ UNCHANGED <<isLoading, initialQueryProcessed, searchParams, mounted,
                 input, isUploading, progressInterval, queries>>
  /\ UNCHANGED <<exportModal, clipboard, now>>
  /\ UNCHANGED home

\* the try branch taking success = false in the body for a failure
UploadResolved_checkingSuccess(u, http) ==
  /\ u \in Pending(uploads)
  /\ uploadDocumentResolves(http)
  /\ messages' = IF http.body[1].success
                   THEN Append(messages, uploadMessage(uploads[u].body.file))
                   ELSE messages
  /\ uploads' = [uploads EXCEPT ![u].status = "ok", ![u].http = <<http>>]
  /\ uploadContinuation(FALSE)
  /\ toast' = IF http.body[1].success
                THEN "success: Document uploaded successfully"
                ELSE "error: Document upload failed. Please try again."
  /\ call' = NoCall
  /\ UNCHANGED <<isLoading, initialQueryProcessed, searchParams, mounted,
                 input, isUploading, progressInterval, queries>>
  /\ UNCHANGED <<exportModal, clipboard, now>>
  /\ UNCHANGED home

\* ChatPage.handleFileUpload after the await, try branch; it resolves
UploadResolved(u, http) ==
  /\ u \in Pending(uploads)
  /\ uploadDocumentResolves(http)
  /\ messages' = Append(messages, uploadMessage(uploads[u].body.file))
  /\ uploads' = [uploads EXCEPT ![u].status = "ok", ![u].http = <<http>>]
  /\ uploadContinuation(FALSE)
  /\ toast' = "success: Document uploaded successfully"
  /\ call' = NoCall
  /\ UNCHANGED <<isLoading, initialQueryProcessed, searchParams, mounted,
                 input, isUploading, progressInterval, queries>>
  /\ UNCHANGED <<exportModal, clipboard, now>>
  /\ UNCHANGED home

\* the catch branch answering with an apology in the chat, as the query's does
UploadRejected_apology(u, http) ==
  /\ u \in Pending(uploads)
  /\ ~uploadDocumentResolves(http)
  /\ uploads' = [uploads EXCEPT ![u].status = "failed", ![u].http = <<http>>]
  /\ messages' = Append(messages, errorMessage(0))
  /\ uploadContinuation(FALSE)
  /\ toast' = "error: Document upload failed. Please try again."
  /\ call' = NoCall
  /\ UNCHANGED <<isLoading, initialQueryProcessed, searchParams, mounted,
                 input, isUploading, progressInterval, queries>>
  /\ UNCHANGED <<exportModal, clipboard, now>>
  /\ UNCHANGED home

\* the catch branch throwing the error on to ChatInput, whose own catch keeps
\* the file
UploadRejected_rethrowing(u, http) ==
  /\ u \in Pending(uploads)
  /\ ~uploadDocumentResolves(http)
  /\ uploads' = [uploads EXCEPT ![u].status = "failed", ![u].http = <<http>>]
  /\ uploadContinuation(TRUE)
  /\ toast' = "error: Failed to upload file"
  /\ call' = NoCall
  /\ UNCHANGED <<chatPage, input, isUploading, progressInterval, queries>>
  /\ UNCHANGED <<exportModal, clipboard, now>>
  /\ UNCHANGED home

\* ChatPage.handleFileUpload after the await, catch branch; it resolves too
UploadRejected(u, http) ==
  /\ u \in Pending(uploads)
  /\ ~uploadDocumentResolves(http)
  /\ uploads' = [uploads EXCEPT ![u].status = "failed", ![u].http = <<http>>]
  /\ uploadContinuation(FALSE)
  /\ toast' = "error: Document upload failed. Please try again."
  /\ call' = NoCall
  /\ UNCHANGED <<chatPage, input, isUploading, progressInterval, queries>>
  /\ UNCHANGED <<exportModal, clipboard, now>>
  /\ UNCHANGED home

\* a tick of an interval that stops at 100 instead of 90
Tick_stoppingAtDone ==
  /\ progressInterval \/ resetTimer # <<>>
  /\ resetTimer # <<>> => resetTimer[1] < TimeoutMs \div IntervalMs
  /\ IF progressInterval
       THEN IF uploadProgress >= ProgressDone
              THEN progressInterval' = FALSE /\ uploadProgress' = uploadProgress
              ELSE /\ progressInterval' = TRUE
                   /\ uploadProgress' = uploadProgress + ProgressStep
       ELSE UNCHANGED <<progressInterval, uploadProgress>>
  /\ resetTimer' = IF resetTimer = <<>> THEN <<>> ELSE <<resetTimer[1] + 1>>
  /\ toast' = "none"
  /\ call' = NoCall
  /\ UNCHANGED <<chatPage, input, selectedFile, isUploading, fileInputValue,
                 network>>
  /\ UNCHANGED <<exportModal, clipboard, now>>
  /\ UNCHANGED home

\* 100 ms pass: the interval's callback runs, an armed timeout grows older
Tick ==
  /\ progressInterval \/ resetTimer # <<>>
  /\ resetTimer # <<>> => resetTimer[1] < TimeoutMs \div IntervalMs
  /\ IF progressInterval
       THEN IF uploadProgress >= ProgressCap
              THEN progressInterval' = FALSE /\ uploadProgress' = uploadProgress
              ELSE /\ progressInterval' = TRUE
                   /\ uploadProgress' = uploadProgress + ProgressStep
       ELSE UNCHANGED <<progressInterval, uploadProgress>>
  /\ resetTimer' = IF resetTimer = <<>> THEN <<>> ELSE <<resetTimer[1] + 1>>
  /\ toast' = "none"
  /\ call' = NoCall
  /\ UNCHANGED <<chatPage, input, selectedFile, isUploading, fileInputValue,
                 network>>
  /\ UNCHANGED <<exportModal, clipboard, now>>
  /\ UNCHANGED home

\* the setTimeout of the finally block; the interval's phase is not known, so
\* four or five of its periods fit into the 500 ms
ResetTimeout ==
  /\ resetTimer # <<>>
  /\ resetTimer[1] >= TimeoutMs \div IntervalMs - 1
  /\ isUploading' = FALSE
  /\ uploadProgress' = 0
  /\ resetTimer' = <<>>
  /\ toast' = "none"
  /\ call' = NoCall
  /\ UNCHANGED <<chatPage, input, selectedFile, fileInputValue,
                 progressInterval, network>>
  /\ UNCHANGED <<exportModal, clipboard, now>>
  /\ UNCHANGED home

(* ----------------------- ChatHeader, ExportModal ---------------------- *)

\* the older header's menu item: console.log only
handleExportChat ==
  /\ mounted
  /\ toast' = "none"
  /\ call' = [fn |-> "handleExportChat"]
  /\ UNCHANGED <<chatPage, chatInput, network, exportModal, clipboard, now>>
  /\ UNCHANGED home

\* the header's menu item "Export PDF"
openExportModal ==
  /\ mounted /\ ~showExportModal
  /\ showExportModal' = TRUE
  /\ toast' = "none"
  /\ call' = NoCall
  /\ UNCHANGED <<chatPage, chatInput, network, isExporting, exportProgress,
                 exportComplete, exportStep, closeTimer, clipboard, now>>
  /\ UNCHANGED home

\* the dialog's X button, or Cancel, which is there while nothing is exported
onClose ==
  /\ showExportModal
  /\ showExportModal' = FALSE
  /\ toast' = "none"
  /\ call' = NoCall
  /\ UNCHANGED <<chatPage, chatInput, network, isExporting, exportProgress,
                 exportComplete, exportStep, closeTimer, clipboard, now>>
  /\ UNCHANGED home

\* the button "Export PDF" is rendered in the footer's last branch only
exportButtonRendered == showExportModal /\ ~exportComplete /\ ~isExporting

\* handleExport up to the first await
handleExport ==
  /\ exportButtonRendered
  /\ isExporting' = TRUE
  /\ exportProgress' = 0
  /\ exportStep' = <<0>>
  /\ toast' = "none"
  /\ call' = [fn |-> "handleExport"]
  /\ UNCHANGED <<chatPage, chatInput, network, showExportModal, exportComplete,
                 closeTimer, clipboard, now>>
  /\ UNCHANGED home

\* the continuation announcing the end one pause early
ExportStepDone_early ==
  /\ exportStep # <<>>
  /\ exportProgress' = (exportStep[1] + 1) * StepPercent
  /\ IF exportStep[1] + 1 < ExportSteps - 1
       THEN /\ exportStep' = <<exportStep[1] + 1>>
            /\ UNCHANGED <<isExporting, exportComplete, closeTimer>>
       ELSE /\ exportStep' = <<>>
            /\ isExporting' = FALSE
            /\ exportComplete' = TRUE
            /\ closeTimer' = TRUE
  /\ toast' = "none"
  /\ call' = NoCall
  /\ UNCHANGED <<chatPage, chatInput, network, showExportModal, clipboard, now>>
  /\ UNCHANGED home

\* a pause of handleExport's loop is over: the loop's body and, after the last
\* pause, the rest of the handler
ExportStepDone ==
  /\ exportStep # <<>>
  /\ exportProgress' = (exportStep[1] + 1) * StepPercent
  /\ IF exportStep[1] + 1 < ExportSteps
       THEN /\ exportStep' = <<exportStep[1] + 1>>
            /\ UNCHANGED <<isExporting, exportComplete, closeTimer>>
       ELSE /\ exportStep' = <<>>
            /\ isExporting' = FALSE
            /\ exportComplete' = TRUE
            /\ closeTimer' = TRUE
  /\ toast' = "none"
  /\ call' = NoCall
  /\ UNCHANGED <<chatPage, chatInput, network, showExportModal, clipboard, now>>
  /\ UNCHANGED home

\* the timeout's callback closing the dialog but leaving exportComplete set
ExportCloseTimeout_stayingComplete ==
  /\ closeTimer
  /\ closeTimer' = FALSE
  /\ showExportModal' = FALSE
  /\ toast' = "none"
  /\ call' = NoCall
  /\ UNCHANGED <<chatPage, chatInput, network, isExporting, exportProgress,
                 exportComplete, exportStep, clipboard, now>>
  /\ UNCHANGED home

\* the setTimeout at the end of handleExport
ExportCloseTimeout ==
  /\ closeTimer
  /\ closeTimer' = FALSE
  /\ exportComplete' = FALSE
  /\ showExportModal' = FALSE
  /\ toast' = "none"
  /\ call' = NoCall
  /\ UNCHANGED <<chatPage, chatInput, network, isExporting, exportProgress,
                 exportStep, clipboard, now>>
  /\ UNCHANGED home

(* ---------------------------- BulkActionBar --------------------------- *)

CopyFormats == {"conversation", "list"}

\* the text put on the clipboard, one entry per selected message
bulkText(selectedMessages, format) ==
  LET selectedMessageObjects ==
        SelectSeq(messages, LAMBDA m : m.id \in selectedMessages)
  IN [i \in 1..Len(selectedMessageObjects) |->
        IF format = "conversation"
          THEN << IF selectedMessageObjects[i].role = "user"
                    THEN "You" ELSE "Assistant",
                  selectedMessageObjects[i].content >>
          ELSE << ToString(i), selectedMessageObjects[i].content >>]

\* handleBulkCopy taking the copied messages out of the list
handleBulkCopy_cutting(selectedMessages, format, written) ==
  /\ mounted /\ selectedMessages # {}
  /\ clipboard' = IF written THEN bulkText(selectedMessages, format)
                              ELSE clipboard
  /\ messages' = SelectSeq(messages, LAMBDA m : m.id \notin selectedMessages)
  /\ toast' = IF written THEN "success: messages copied"
                          ELSE "error: Failed to copy messages"
  /\ call' = [fn |-> "handleBulkCopy", selectedMessages |-> selectedMessages,
              format |-> format]
  /\ UNCHANGED <<isLoading, initialQueryProcessed, searchParams, mounted,
                 chatInput, network, exportModal, now>>
  /\ UNCHANGED home

\* the bar is rendered while some message is selected; writeText may be refused
handleBulkCopy(selectedMessages, format, written) ==
  /\ mounted /\ selectedMessages # {}
  /\ clipboard' = IF written THEN bulkText(selectedMessages, format)
                              ELSE clipboard
  /\ toast' = IF written THEN "success: messages copied"
                          ELSE "error: Failed to copy messages"
  /\ call' = [fn |-> "handleBulkCopy", selectedMessages |-> selectedMessages,
              format |-> format]
  /\ UNCHANGED <<chatPage, chatInput, network, exportModal, now>>
  /\ UNCHANGED home

(* -------------------------------- Home -------------------------------- *)

\* the sample questions of the quick-question grid, one element per word,
\* blank or question mark
insuranceQuestions ==
  [ Coverage  |-> <<"Does", " ", "my", " ", "policy", " ", "cover", " ",
                    "flood", " ", "damage", "?">>,
    Claim     |-> <<"How", " ", "do", " ", "I", " ", "file", " ", "a", " ",
                    "claim", "?">>,
    Documents |-> <<"What", " ", "documents", " ", "do", " ", "I", " ",
                    "need", "?">>,
    Status    |-> <<"Check", " ", "my", " ", "claim", " ", "status">> ]

questionConfig == {"Coverage", "Claim", "Documents", "Status"}

\* what the visitor may type in the Home page's field
HomeTexts ==
  { <<>>, <<" ">>, <<"a">>, <<" ", "a", " ">>, <<"a", " ", "b">>,
    <<"a", "?">> }

\* encodeURIComponent: a blank and a question mark are escaped, letters are
\* kept
encodeURIComponent(query) ==
  [ i \in 1..Len(query) |->
      IF query[i] = " " THEN "%20"
      ELSE IF query[i] = "?" THEN "%3F"
      ELSE query[i] ]

\* the decoding done by URLSearchParams.get on the chat page
decodeURIComponent(text) ==
  [ i \in 1..Len(text) |->
      IF text[i] = "%20" THEN " "
      ELSE IF text[i] = "%3F" THEN "?"
      ELSE text[i] ]

\* the template literal `/chat?query=${encodeURIComponent(query)}`
chatUrl(query) == <<"/chat?query=">> \o encodeURIComponent(query)

\* goToChat up to its pause of 300 ms
goToChat(query) ==
  /\ isNavigating' = TRUE
  /\ loadingQuery' = <<query>>
  /\ goToChatPaused' = Append(goToChatPaused, query)
  /\ call' = [fn |-> "goToChat", query |-> query]

\* the field's onChange; the field is disabled while navigating
Home_onChange(t) ==
  /\ ~isNavigating
  /\ t # homeInput
  /\ homeInput' = t
  /\ toast' = "none"
  /\ call' = NoCall
  /\ UNCHANGED <<isNavigating, loadingQuery, goToChatPaused, pushed>>
  /\ UNCHANGED <<chatPage, chatInput, network, exportModal, clipboard, now>>

\* the form's onSubmit, which checks nothing
Home_onSubmit_unguarded ==
  /\ IF Trim(homeInput) # <<>>
       THEN goToChat(Trim(homeInput))
       ELSE /\ call' = [fn |-> "onSubmit"]
            /\ UNCHANGED <<isNavigating, loadingQuery, goToChatPaused>>
  /\ toast' = "none"
  /\ UNCHANGED <<homeInput, pushed>>
  /\ UNCHANGED <<chatPage, chatInput, network, exportModal, clipboard, now>>

\* the form's onSubmit, raised whatever the state of the page
Home_onSubmit ==
  /\ IF Trim(homeInput) # <<>> /\ ~isNavigating
       THEN goToChat(Trim(homeInput))
       ELSE /\ call' = [fn |-> "onSubmit"]
            /\ UNCHANGED <<isNavigating, loadingQuery, goToChatPaused>>
  /\ toast' = "none"
  /\ UNCHANGED <<homeInput, pushed>>
  /\ UNCHANGED <<chatPage, chatInput, network, exportModal, clipboard, now>>

\* a click on a quick-question button; the buttons are disabled while
\* navigating
QuickQuestionClick(key) ==
  /\ ~isNavigating
  /\ goToChat(insuranceQuestions[key])
  /\ toast' = "none"
  /\ UNCHANGED <<homeInput, pushed>>
  /\ UNCHANGED <<chatPage, chatInput, network, exportModal, clipboard, now>>

\* goToChat after its pause: router.push, the chat page's URL then carrying
\* the query
goToChatPushed ==
  /\ goToChatPaused # <<>>
  /\ pushed' = Append(pushed, chatUrl(Head(goToChatPaused)))
  /\ goToChatPaused' = Tail(goToChatPaused)
  /\ searchParams' =
       <<decodeURIComponent(Tail(chatUrl(Head(goToChatPaused))))>>
  /\ toast' = "none"
  /\ call' = NoCall
  /\ UNCHANGED <<homeInput, isNavigating, loadingQuery>>
  /\ UNCHANGED <<messages, isLoading, initialQueryProcessed, mounted>>
  /\ UNCHANGED <<chatInput, network, exportModal, clipboard, now>>

\* the chat page rendered after the navigation
ChatPageOpened ==
  /\ pushed # <<>>
  /\ Mount

(* -------------------------------- clock ------------------------------- *)

\* a millisecond passes: Date.now() grows by one
ClockAdvance ==
  /\ now < MaxClock
  /\ now' = now + 1
  /\ toast' = "none"
  /\ call' = NoCall
  /\ UNCHANGED <<chatPage, chatInput, network, exportModal, clipboard>>
  /\ UNCHANGED home

(* --------------------------- specification ---------------------------- *)

Next ==
  \/ Mount
  \/ \E sp \in UrlParams : SearchParamsChange(sp)
  \/ \E k \in 1..MaxRequests, r \in Responses : QueryResolved(k, r)
  \/ \E k \in 1..MaxRequests : QueryRejected(k)
  \/ clearHistory
  \/ \E t \in Texts : InputChange(t)
  \/ \E s \in suggestedQuestions : handleSuggestionClick(s)
  \/ \E f \in Files : handleFileSelect(f)
  \/ removeSelectedFile
  \/ SubmitClick
  \/ handleKeyDown
  \/ \E u \in 1..MaxRequests, h \in HttpSample : UploadResolved(u, h)
  \/ \E u \in 1..MaxRequests, h \in HttpSample : UploadRejected(u, h)
  \/ Tick
  \/ ResetTimeout

Spec == Init /\ [][Next]_vars

\* the chat page answering the URL's query with every decision of
\* InsuranceResponses
NextFormat ==
  \/ Mount
  \/ \E k \in 1..MaxRequests, r \in InsuranceResponses : QueryResolved(k, r)

SpecFormat == Init /\ [][NextFormat]_vars

\* the form and the initial-query effect with every text, blank ones included
NextForm ==
  \/ Mount
  \/ \E sp \in UrlParams : SearchParamsChange(sp)
  \/ \E t \in Texts : InputChange(t)
  \/ \E f \in Files : handleFileSelect(f)
  \/ removeSelectedFile
  \/ FormSubmit
  \/ \E k \in 1..MaxRequests, r \in Responses : QueryResolved(k, r)
  \/ \E u \in 1..MaxRequests, h \in HttpSample : UploadResolved(u, h)

SpecForm == Init /\ [][NextForm]_vars

\* the chat page with a clock that runs: the ids the messages take from
\* Date.now()
NextIds ==
  \/ Mount
  \/ \E t \in Texts : InputChange(t)
  \/ \E f \in Files : handleFileSelect(f)
  \/ SubmitClick
  \/ \E k \in 1..MaxRequests, r \in Responses : QueryResolved(k, r)
  \/ \E k \in 1..MaxRequests : QueryRejected(k)
  \/ \E u \in 1..MaxRequests, h \in HttpSample : UploadResolved(u, h)
  \/ ClockAdvance

SpecIds == Init /\ [][NextIds]_vars

\* the upload of a file with every answer of HttpResponses; the interval's and
\* the timeout's callbacks run when they are due
NextUpload ==
  \/ Mount
  \/ \E t \in Texts : InputChange(t)
  \/ \E f \in Files : handleFileSelect(f)
  \/ removeSelectedFile
  \/ SubmitClick
  \/ \E u \in 1..MaxRequests, h \in HttpResponses : UploadResolved(u, h)
  \/ \E u \in 1..MaxRequests, h \in HttpResponses : UploadRejected(u, h)
  \/ Tick
  \/ ResetTimeout

SpecUpload ==
  Init /\ [][NextUpload]_vars /\ WF_vars(Tick) /\ WF_vars(ResetTimeout)

\* the ids of the messages in the list
MessageIds == { messages[i].id : i \in 1..Len(messages) }

\* the chat page with the header's export dialog and the bulk action bar
NextExport ==
  \/ Mount
  \/ \E k \in 1..MaxRequests, r \in Responses : QueryResolved(k, r)
  \/ \E k \in 1..MaxRequests : QueryRejected(k)
  \/ handleExportChat
  \/ openExportModal
  \/ onClose
  \/ handleExport
  \/ ExportStepDone
  \/ ExportCloseTimeout
  \/ \E sel \in SUBSET MessageIds, format \in CopyFormats, written \in BOOLEAN :
        handleBulkCopy(sel, format, written)

SpecExport == Init /\ [][NextExport]_vars

\* the same, the pauses of handleExport and its closing timeout ending when
\* they are due
SpecExportLive ==
  Init /\ [][NextExport]_vars
       /\ WF_vars(ExportStepDone) /\ WF_vars(ExportCloseTimeout)

\* the Home page, from which the chat page is reached
InitHome == Init /\ searchParams = <<>>

NextHome ==
  \/ \E t \in HomeTexts : Home_onChange(t)
  \/ Home_onSubmit
  \/ \E key \in questionConfig : QuickQuestionClick(key)
  \/ goToChatPushed
  \/ ChatPageOpened
  \/ \E k \in 1..MaxRequests, r \in Responses : QueryResolved(k, r)
  \/ \E k \in 1..MaxRequests : QueryRejected(k)
  \/ \E t \in Texts : InputChange(t)
  \/ SubmitClick

SpecHome == InitHome /\ [][NextHome]_vars

(* ------------------------------- claims ------------------------------- *)

IsUser(m) == m.role = "user" /\ ~Has(m, "insuranceData")
IsReply(m) == m.role = "assistant" /\ Has(m, "insuranceData")
IsApology(m) ==
  /\ m.role = "assistant" /\ ~Has(m, "insuranceData")
  /\ m.content[1] = "I apologize, but I'm experiencing technical difficulties"
IsUploadConfirmation(m) ==
  /\ m.role = "assistant" /\ ~Has(m, "insuranceData")
  /\ m.content[1] = "**Document Upload Successful**"

\* C1: whenever a /process-query request has not yet settled, isLoading is
\* true, so the text field, the attach button and the submit button of
\* ChatInput are disabled.
C1_LoadingWhilePending ==
  Pending(queries) # {} => isLoading /\ fieldDisabled /\ submitDisabled

\* C2: the message list changes only by one message being appended at its end
\* (a user message, a reply, an apology or an upload confirmation) or by
\* clearHistory emptying it; nothing is reordered, edited or removed singly.
C2_AppendOrClear ==
  [][ \/ messages' = messages
      \/ /\ messages' = <<>>
         /\ toast' = "success: Conversation history cleared"
         /\ initialQueryProcessed' = FALSE
      \/ /\ Len(messages') = Len(messages) + 1
         /\ \A i \in 1..Len(messages) : messages'[i] = messages[i]
         /\ LET m == messages'[Len(messages')]
            IN IsUser(m) \/ IsReply(m) \/ IsApology(m) \/ IsUploadConfirmation(m)
    ]_vars

\* C2 witness: a list holding a user message, then an upload confirmation, then
\* the reply.
C2_Witness ==
  \E i, j, l \in 1..Len(messages) :
    /\ i < l /\ l < j
    /\ IsUser(messages[i]) /\ IsReply(messages[j])
    /\ IsUploadConfirmation(messages[l])

\* C3: a call of handleSendMessage whose content is not blank issues exactly one
\* POST /process-query, whose body is {query: c}, c being the trimmed content,
\* the same string the user message carries.
C3_OneQueryPerSend ==
  [][ (call'.fn = "handleSendMessage" /\ Trim(call'.content) # <<>> /\ vars' # vars)
        => /\ Len(queries') = Len(queries) + 1
           /\ \A k \in 1..Len(queries) : queries'[k] = queries[k]
           /\ LET r == queries'[Len(queries')]
                  m == messages'[Len(messages')]
              IN /\ r.endpoint = "/process-query"
                 /\ r.method = "POST"
                 /\ r.body = [query |-> Trim(call'.content)]
                 /\ r.status = "pending"
                 /\ Len(messages') = Len(messages) + 1
                 /\ IsUser(m)
                 /\ m.content = r.body.query
    ]_vars

\* C3 witness: the effect has sent a URL query that had white space around it.
C3_Witness ==
  /\ call.fn = "handleSendMessage"
  /\ Trim(call.content) # <<>>
  /\ Trim(call.content) # call.content
  /\ queries # <<>>
  /\ queries[Len(queries)].body.query = Trim(call.content)

TenMegabytes == 10 * 1024 * 1024

ClaimedTypes ==
  { "application/pdf", "application/msword",
    "application/vnd.openxmlformats-officedocument.wordprocessingml.document",
    "text/plain", "image/jpeg", "image/png" }

\* C4: every file sent to POST /upload-document (multipart field `file`) has
\* one of the six allowed MIME types and at most 10*1024*1024 bytes.
C4_UploadedFilesValid ==
  \A u \in 1..Len(uploads) :
    /\ uploads[u].endpoint = "/upload-document"
    /\ uploads[u].method = "POST"
    /\ DOMAIN uploads[u].body = {"file"}
    /\ uploads[u].body.file.type \in ClaimedTypes
    /\ uploads[u].body.file.size <= TenMegabytes

\* C4 witness: a file of exactly the largest size has been uploaded.
C4_Witness ==
  \E u \in 1..Len(uploads) : uploads[u].body.file.size = TenMegabytes

\* C5: handleFileSelect accepts a file of allowed type if and only if it has at
\* most 10*1024*1024 bytes: exactly that size is accepted, one more is not.
C5_SizeLimit ==
  (call.fn = "handleFileSelect" /\ call.file.type \in ClaimedTypes)
    => /\ (toast = "success: File selected") <=> (call.file.size <= TenMegabytes)
       /\ (toast = "error: File size must be less than 10MB")
            <=> (call.file.size > TenMegabytes)
       /\ (selectedFile = call.file) <=> (call.file.size <= TenMegabytes)

\* C5 witness: a file of exactly 10*1024*1024 bytes has just been accepted.
C5_Witness ==
  /\ call.fn = "handleFileSelect"
  /\ call.file.size = TenMegabytes
  /\ toast = "success: File selected"
  /\ selectedFile = call.file

\* C6: when the /process-query request fails, handleSendMessage appends exactly
\* one apology without insuranceData, sets isLoading to false and issues no
\* further request; every message of the list, the user message included,
\* stays where it was.
C6_FailureHandling ==
  [][ \A k \in 1..Len(queries) :
        (queries[k].status = "pending" /\ queries'[k].status = "failed")
          => /\ Len(messages') = Len(messages) + 1
             /\ \A i \in 1..Len(messages) : messages'[i] = messages[i]
             /\ IsApology(messages'[Len(messages')])
             /\ ~Has(messages'[Len(messages')], "insuranceData")
             /\ isLoading' = FALSE
             /\ Len(queries') = Len(queries)
             /\ \A j \in 1..Len(queries) : j # k => queries'[j] = queries[j]
             /\ uploads' = uploads
    ]_vars

\* C6 witness: a request has just failed; its user message and the apology are
\* in the list and isLoading is false.
C6_Witness ==
  /\ toast = "error: Unable to process your request at this time"
  /\ ~isLoading
  /\ \E k \in 1..Len(queries) :
       /\ queries[k].status = "failed"
       /\ \E i, j \in 1..Len(messages) :
            /\ i < j
            /\ IsUser(messages[i]) /\ messages[i].req = k
            /\ IsApology(messages[j]) /\ messages[j].req = k

\* C7: when the /upload-document request fails, ChatPage.handleFileUpload leaves
\* the message list and isLoading as they are and shows an error toast.
C7_UploadFailure ==
  [][ \A u \in 1..Len(uploads) :
        (uploads[u].status = "pending" /\ uploads'[u].status = "failed")
          => /\ messages' = messages
             /\ isLoading' = isLoading
             /\ queries' = queries
             /\ toast' = "error: Document upload failed. Please try again."
    ]_vars

\* C7 witness: an upload has just failed while a query was being awaited.
C7_Witness ==
  /\ toast = "error: Document upload failed. Please try again."
  /\ \E u \in 1..Len(uploads) : uploads[u].status = "failed"
  /\ isLoading
  /\ messages # <<>>

RepliesTo(msgs, k) ==
  { i \in 1..Len(msgs) : msgs[i].role = "assistant" /\ msgs[i].req = k }

\* C8: a send whose request settles gets exactly one assistant message, the
\* formatted decision on success and the apology on failure, appended in the
\* step that sets isLoading to false; a pending request has none.
C8_OneReplyPerSend ==
  [][ \A k \in 1..Len(queries') :
        /\ queries'[k].status = "pending"
             => queries'[k].replies = 0 /\ RepliesTo(messages', k) = {}
        /\ queries'[k].status # "pending"
             => /\ queries'[k].replies = 1
                /\ Cardinality(RepliesTo(messages', k)) <= 1
                /\ ~queries'[k].cleared => Cardinality(RepliesTo(messages', k)) = 1
        /\ (k <= Len(queries) /\ queries[k].status = "pending"
              /\ queries'[k].status # "pending")
             => /\ Len(messages') = Len(messages) + 1
                /\ messages'[Len(messages')].req = k
                /\ queries'[k].status = "ok" => IsReply(messages'[Len(messages')])
                /\ queries'[k].status = "failed"
                     => IsApology(messages'[Len(messages')])
                /\ isLoading' = FALSE
    ]_vars

\* C8 witness: one request has succeeded and another has failed, each with its
\* one assistant message.
C8_Witness ==
  \E k1, k2 \in 1..Len(queries) :
    /\ queries[k1].status = "ok" /\ queries[k1].replies = 1
    /\ queries[k2].status = "failed" /\ queries[k2].replies = 1

UserMessageOf(msgs, k) ==
  { i \in 1..Len(msgs) : IsUser(msgs[i]) /\ msgs[i].req = k }

\* C9: handleSendMessage appends the user message and sets isLoading to true in
\* the step that issues the request, and the user message is in the list while
\* the request is pending and after it has settled, unless clearHistory ran.
C9_OptimisticUserMessage ==
  [][ /\ Len(queries') = Len(queries) + 1
        => /\ Len(messages') = Len(messages) + 1
           /\ messages'[Len(messages')]
                = userMessage(queries'[Len(queries')].body.query, Len(queries'))
           /\ isLoading' = TRUE
           /\ queries'[Len(queries')].status = "pending"
      /\ \A k \in 1..Len(queries') :
           ~queries'[k].cleared
             => \E i \in UserMessageOf(messages', k) :
                  messages'[i].content = queries'[k].body.query
    ]_vars

\* C9 witness: a request has succeeded and its user message is still in the list,
\* before the reply.
C9_Witness ==
  \E k \in 1..Len(queries) :
    /\ queries[k].status = "ok"
    /\ ~queries[k].cleared
    /\ \E i \in UserMessageOf(messages, k), j \in RepliesTo(messages, k) : i < j

\* C10: when handleFileSelect refuses a file, the selected file, the typed text
\* and the upload state stay as they are, the file input element is reset and
\* no request is issued.
C10_RejectedFileFrame ==
  [][ ( /\ call'.fn = "handleFileSelect"
        /\ vars' # vars
        /\ ~(call'.file.type \in ClaimedTypes /\ call'.file.size <= TenMegabytes) )
        => /\ selectedFile' = selectedFile
           /\ input' = input
           /\ isUploading' = isUploading
           /\ uploadProgress' = uploadProgress
           /\ progressInterval' = progressInterval
           /\ resetTimer' = resetTimer
           /\ fileInputValue' = ""
           /\ uploads' = uploads
           /\ queries' = queries
           /\ \A u \in 1..Len(uploads') : uploads'[u].body.file # call'.file
    ]_vars

\* C10 witness: a file has just been refused while another file was selected
\* and a text was typed.
C10_Witness ==
  /\ call.fn = "handleFileSelect"
  /\ ~(call.file.type \in ClaimedTypes /\ call.file.size <= TenMegabytes)
  /\ selectedFile # Null
  /\ selectedFile # call.file
  /\ input # <<>>
  /\ fileInputValue = ""

SectionTitles ==
  << "**Decision:** ", "**Coverage Amount:** $", "**Analysis:**",
     "**Policy References:**", "**Assessment Confidence:** ",
     "**Documentation Reviewed:**" >>

\* the section titles of a formatted text, in the order they appear
TitlesOf(content) ==
  SelectSeq(content, LAMBDA t : \E i \in 1..Len(SectionTitles) : t = SectionTitles[i])

\* whether the decision d is to have the i-th section
Wanted(d, i) ==
  CASE i = 1 -> TRUE
    [] i = 2 -> Has(d, "amount") /\ d.amount > 0
    [] i = 3 -> TRUE
    [] i = 4 -> Has(d, "referenced_clauses") /\ d.referenced_clauses # <<>>
    [] i = 5 -> Has(d, "confidence_score") /\ d.confidence_score # 0
    [] i = 6 -> /\ Has(d, "additional_info")
                /\ Has(d.additional_info, "sources")
                /\ d.additional_info.sources # <<>>

RECURSIVE WantedTitles(_, _)
WantedTitles(d, i) ==
  IF i > Len(SectionTitles) THEN <<>>
  ELSE (IF Wanted(d, i) THEN <<SectionTitles[i]>> ELSE <<>>)
         \o WantedTitles(d, i + 1)

\* the piece of the text that follows the title
After(content, title) ==
  content[1 + CHOOSE i \in 1..Len(content) : content[i] = title]

\* C11: formatInsuranceResponse emits the sections Decision, Amount, Analysis,
\* Policy References, Confidence, Sources in that order; Decision and the
\* justification are always there, and each optional section is there exactly
\* when its field is present and not empty (amount > 0, some referenced clause,
\* a score other than 0, some source); a decision without optional fields is
\* formatted too.
C11_SectionsInOrder ==
  \A j \in 1..Len(messages) :
    Has(messages[j], "insuranceData")
      => LET d == messages[j].insuranceData
             text == messages[j].content
         IN /\ TitlesOf(text) = WantedTitles(d, 1)
            /\ After(text, "**Decision:** ") = d.decision
            /\ After(text, "**Analysis:**") = d.justification
            /\ DOMAIN d = {"decision", "justification"}
                 => TitlesOf(text) = <<"**Decision:** ", "**Analysis:**">>

\* C11 witness: a decision whose four optional fields are present but zero or
\* empty has been formatted with the two mandatory sections only.
C11_Witness ==
  \E j \in 1..Len(messages) :
    /\ Has(messages[j], "insuranceData")
    /\ LET d == messages[j].insuranceData
       IN /\ DOMAIN d = {"decision", "justification", "amount",
                         "referenced_clauses", "confidence_score",
                         "additional_info"}
          /\ d.amount = 0 /\ d.referenced_clauses = <<>>
          /\ d.confidence_score = 0 /\ d.additional_info = [sources |-> <<>>]
    /\ messages[j].content
         = << "**Decision:** ", messages[j].insuranceData.decision,
              "**Analysis:**", messages[j].insuranceData.justification,
              "*This analysis is based on your current policy terms and conditions.*" >>

\* C12: no step of the export and bulk-action features (the header's export
\* item and dialog, ExportModal.handleExport and its timers,
\* BulkActionBar.handleBulkCopy) issues a backend request or changes the message
\* list or isLoading.
C12_ExportAndBulkFrame ==
  [][ ( \/ call'.fn \in {"handleExportChat", "handleExport", "handleBulkCopy"}
        \/ exportModal' # exportModal
        \/ clipboard' # clipboard )
        => /\ messages' = messages
           /\ isLoading' = isLoading
           /\ queries' = queries
           /\ uploads' = uploads
    ]_vars

\* C12 witness: messages have just been copied, after an export has run to its
\* end, while a query is awaited.
C12_Witness ==
  /\ call.fn = "handleBulkCopy"
  /\ clipboard # <<>>
  /\ exportComplete
  /\ messages # <<>>
  /\ isLoading
  /\ Pending(queries) # {}

\* C13: during a run of handleExport exportProgress takes the values 0, 25, 50,
\* 75, 100 in that order and never decreases, isExporting is true for the whole
\* run, and exportComplete becomes true only once exportProgress has reached
\* 100 and isExporting is false again.
C13_ExportProgress ==
  [][ /\ exportProgress' \in {0, 25, 50, 75, 100}
      /\ (~isExporting /\ isExporting')
           => exportProgress' = 0 /\ ~exportComplete'
      /\ (isExporting /\ isExporting')
           => /\ exportProgress' \in {exportProgress, exportProgress + 25}
              /\ exportProgress' < 100
              /\ ~exportComplete'
      /\ (isExporting /\ ~isExporting')
           => exportProgress = 75 /\ exportProgress' = 100
      /\ (~isExporting /\ ~isExporting')
           => exportProgress' = exportProgress
      /\ (~exportComplete /\ exportComplete')
           => isExporting /\ ~isExporting' /\ exportProgress' = 100
      /\ exportComplete' => ~isExporting' /\ exportProgress' = 100
    ]_vars

\* C13 witness: a run of handleExport has come to its end after the dialog was
\* closed during it.
C13_Witness ==
  /\ exportComplete /\ ~isExporting /\ exportProgress = 100
  /\ closeTimer
  /\ call = NoCall /\ toast = "none"
  /\ ~showExportModal

\* C14: a submit with a text that is not blank and a selected file calls
\* onSendMessage and starts the upload in the same step, the query's response
\* not being awaited: both requests are in flight at once, and whichever
\* response arrives first is handled first.
C14_QueryAndUploadUncoordinated ==
  [][ /\ ( /\ Trim(input) # <<>> /\ selectedFile # Null
           /\ call'.fn = "handleSendMessage" /\ input' = <<>> )
          => /\ call'.content = Trim(input)
             /\ Len(queries') = Len(queries) + 1
             /\ queries'[Len(queries')].status = "pending"
             /\ IsUser(messages'[Len(messages')])
             /\ Len(uploads') = Len(uploads) + 1
             /\ uploads'[Len(uploads')].status = "pending"
             /\ uploads'[Len(uploads')].body.file = selectedFile
      /\ \A k \in Pending(queries), u \in Pending(uploads) :
           /\ \E h \in HttpSample : ENABLED UploadResolved(u, h)
           /\ \E h \in HttpSample : ENABLED UploadRejected(u, h)
           /\ ENABLED QueryRejected(k)
           /\ \A r \in Responses : ENABLED QueryResolved(k, r)
    ]_vars

\* C14 witness: the upload started by a submit has been confirmed in the list
\* while the query of that submit is still awaited.
C14_Witness ==
  /\ Len(messages) = 2
  /\ IsUser(messages[1])
  /\ IsUploadConfirmation(messages[2])
  /\ Pending(queries) = {messages[1].req}
  /\ uploads # <<>>
  /\ uploads[Len(uploads)].status = "ok"
  /\ searchParams = <<>>

\* the decision without its confidence score
NoScore(d) == [f \in DOMAIN d \ {"confidence_score"} |-> d[f]]

\* the formatted text without its confidence line (title, level, percentage)
WithoutConfidence(content) ==
  IF \E i \in 1..Len(content) : content[i] = "**Assessment Confidence:** "
    THEN LET i == CHOOSE n \in 1..Len(content) :
                    content[n] = "**Assessment Confidence:** "
         IN SubSeq(content, 1, i - 1) \o SubSeq(content, i + 3, Len(content))
    ELSE content

\* C15: the confidence score is advisory: whatever decision d2 the backend
\* could have sent that differs from the one it sent in confidence_score only,
\* the step handling the response appends one assistant message, sets
\* isLoading to false and shows the same text outside the confidence line.
C15_ConfidenceAdvisory ==
  [][ \A k \in 1..Len(queries) :
        (queries[k].status = "pending" /\ queries'[k].status = "ok")
          => LET d == queries'[k].response[1]
                 m == messages'[Len(messages')]
             IN /\ Len(messages') = Len(messages) + 1
                /\ \A i \in 1..Len(messages) : messages'[i] = messages[i]
                /\ m.role = "assistant"
                /\ isLoading' = FALSE
                /\ Len(queries') = Len(queries) /\ uploads' = uploads
                /\ \A d2 \in InsuranceResponses :
                     NoScore(d2) = NoScore(d)
                       => /\ WithoutConfidence(aiMessage(d2, k).content)
                               = WithoutConfidence(m.content)
                          /\ aiMessage(d2, k).role = m.role
    ]_vars

\* C15 witness: a decision with a score of 0.5, clauses and sources has been
\* shown with its clauses and sources and the line "Low Confidence".
C15_Witness ==
  \E j \in 1..Len(messages) :
    /\ Has(messages[j], "insuranceData")
    /\ Has(messages[j].insuranceData, "confidence_score")
    /\ messages[j].insuranceData.confidence_score = 500
    /\ \E i \in 1..Len(messages[j].content) :
         messages[j].content[i] = "Low Confidence"
    /\ \E i \in 1..Len(messages[j].content) :
         messages[j].content[i] = "**Documentation Reviewed:**"
    /\ \E i \in 1..Len(messages[j].content) :
         messages[j].content[i] = "**Policy References:**"
    /\ ~isLoading

\* C16: handleSendMessage called with an empty or blank content does nothing
\* (no request, no message, isLoading as it was), and handleSubmit run with a
\* blank text and no selected file calls neither onSendMessage nor
\* onFileUpload.
C16_BlankIsNoOp ==
  [][ /\ (call'.fn = "handleSendMessage" /\ Trim(call'.content) = <<>>)
           => /\ messages' = messages
              /\ isLoading' = isLoading
              /\ queries' = queries
              /\ uploads' = uploads
      /\ (Trim(input) = <<>> /\ selectedFile = Null /\ FormSubmit)
           => /\ call'.fn = "handleSubmit"
              /\ messages' = messages
              /\ isLoading' = isLoading
              /\ queries' = queries
              /\ uploads' = uploads
              /\ isUploading' = isUploading
      /\ call'.fn = "handleSubmit" => Trim(input) = <<>> /\ selectedFile = Null
    ]_vars

\* C16 witness: the effect has called handleSendMessage with the blank query
\* of the URL, and the form has then been submitted with a blank text and no
\* file; nothing was sent.
C16_Witness ==
  /\ call.fn = "handleSubmit"
  /\ input # <<>> /\ Trim(input) = <<>>
  /\ selectedFile = Null
  /\ initialQueryProcessed
  /\ searchParams # <<>> /\ Trim(searchParams[1]) = <<>>
  /\ queries = <<>> /\ uploads = <<>> /\ messages = <<>>
  /\ ~isLoading

\* C17: a message carries insuranceData exactly when it is the assistant reply
\* to a /process-query request that succeeded, and insuranceData is then the
\* decision the backend returned; user messages, apologies and upload
\* confirmations never carry it.
C17_InsuranceDataOnReplies ==
  \A j \in 1..Len(messages) :
    LET m == messages[j]
    IN /\ Has(m, "insuranceData")
            <=> /\ m.role = "assistant"
                /\ m.req \in 1..Len(queries)
                /\ queries[m.req].status = "ok"
       /\ Has(m, "insuranceData")
            => queries[m.req].response = <<m.insuranceData>>
       /\ ( \/ m.role = "user"
            \/ m.content[1] = "I apologize, but I'm experiencing technical difficulties"
            \/ m.content[1] = "**Document Upload Successful**" )
            => ~Has(m, "insuranceData")
       /\ (m.role = "assistant" /\ ~Has(m, "insuranceData"))
            => \/ m.req = 0
               \/ queries[m.req].status = "failed"

\* C17 witness: the list holds a reply carrying a decision with all its
\* optional fields, and the apology for another query, which carries none.
C17_Witness ==
  \E i, j \in 1..Len(messages) :
    /\ Has(messages[i], "insuranceData")
    /\ DOMAIN messages[i].insuranceData
         = {"decision", "justification", "amount", "referenced_clauses",
            "confidence_score", "additional_info"}
    /\ queries[messages[i].req].response = <<messages[i].insuranceData>>
    /\ messages[j].role = "assistant"
    /\ messages[j].req # messages[i].req /\ messages[j].req # 0
    /\ ~Has(messages[j], "insuranceData")

\* C18: every reply or apology in the list stands later in the list than the
\* user message of the same query, also when clearHistory ran while the
\* request was in flight.
C18_ReplyAfterUserMessage ==
  \A j \in 1..Len(messages) :
    (messages[j].role = "assistant" /\ messages[j].req # 0)
      => \E i \in 1..(j - 1) :
           IsUser(messages[i]) /\ messages[i].req = messages[j].req

\* C19: at most one /process-query request is in flight at any time:
\* handleSendMessage is not entered while isLoading is true.
C19_OneQueryInFlight ==
  Cardinality(Pending(queries)) <= 1

\* C20: the messages of the list have pairwise distinct ids, however the
\* steps interleave and however the clock, which never runs backwards, runs.
C20_DistinctIds ==
  \A i, j \in 1..Len(messages) :
    i # j => messages[i].id # messages[j].id

\* a step in which the initial-query effect called handleSendMessage: the form
\* empties its text when it sends, the effect leaves the text alone
EffectSent == call'.fn = "handleSendMessage" /\ input' = input

\* C21: the effect sends the URL's query at most once as long as clearHistory
\* is not called: it sends only while initialQueryProcessed is unset and sets
\* it, a run with the ref set or with the parameter absent or empty sends
\* nothing, and only clearHistory unsets the ref, after which a later run of
\* the effect may send the query again.
C21_InitialQueryOnce ==
  [][ /\ EffectSent
           => /\ ~initialQueryProcessed /\ initialQueryProcessed'
              /\ searchParams' # <<>> /\ searchParams'[1] # <<>>
              /\ call'.content = searchParams'[1]
      /\ (initialQueryProcessed /\ ~initialQueryProcessed')
           => toast' = "success: Conversation history cleared" /\ messages' = <<>>
      /\ (Mount \/ \E sp \in UrlParams : SearchParamsChange(sp))
           => /\ (initialQueryProcessed \/ searchParams' = <<>>
                     \/ searchParams' = << <<>> >>)
                   => /\ queries' = queries
                      /\ messages' = messages
                      /\ isLoading' = isLoading
                      /\ initialQueryProcessed' = initialQueryProcessed
                      /\ call' = NoCall
    ]_vars

\* C21 witness: the effect has sent the URL's query, clearHistory has unset the
\* ref, and a later run of the effect has sent the query a second time.
C21_Witness ==
  /\ Len(queries) = 2
  /\ queries[1].cleared /\ ~queries[2].cleared
  /\ queries[1].body = queries[2].body
  /\ call.fn = "handleSendMessage"
  /\ input # <<>>
  /\ initialQueryProcessed
  /\ searchParams # <<>> /\ Trim(searchParams[1]) = queries[2].body.query

\* C22: when ChatInput.handleFileUpload comes back from onFileUpload,
\* selectedFile is null whether the upload succeeded or failed:
\* ChatPage.handleFileUpload catches the error, so ChatInput's own catch
\* ("Failed to upload file") never runs and the file is not kept for a retry.
C22_FileDroppedAfterUpload ==
  [][ \A u \in 1..Len(uploads) :
        (uploads[u].status = "pending" /\ uploads'[u].status # "pending")
          => /\ selectedFile' = Null
             /\ fileInputValue' = ""
             /\ uploadProgress' = ProgressDone
             /\ toast' # "error: Failed to upload file"
             /\ resetTimer' = <<0>>
    ]_vars

\* C22 witness: an upload has just failed, and the file that was selected for
\* it is selected no more.
C22_Witness ==
  /\ toast = "error: Document upload failed. Please try again."
  /\ \E u \in 1..Len(uploads) : uploads[u].status = "failed"
  /\ selectedFile = Null
  /\ fileInputValue = ""
  /\ isUploading
  /\ uploadProgress = ProgressDone

\* C23: the upload confirmation and the success toast are produced exactly
\* when uploadDocument resolves, that is when the response is ok and its body
\* parses as JSON; the body's success field is not looked at, so a 2xx
\* response with success = false is reported as a successful upload.
C23_UploadSuccessIgnoresBody ==
  [][ \A u \in 1..Len(uploads) :
        (uploads[u].status = "pending" /\ uploads'[u].status # "pending")
          => LET h == uploads'[u].http[1]
                 confirmed ==
                   /\ Len(messages') = Len(messages) + 1
                   /\ IsUploadConfirmation(messages'[Len(messages')])
                   /\ toast' = "success: Document uploaded successfully"
             IN /\ confirmed <=> (h.ok /\ h.body # <<>>)
                /\ confirmed <=> uploads'[u].status = "ok"
                /\ ~confirmed
                     => /\ messages' = messages
                        /\ toast' = "error: Document upload failed. Please try again."
    ]_vars

\* C23 witness: a 2xx response whose body says success = false has been
\* answered with the confirmation and the success toast.
C23_Witness ==
  /\ toast = "success: Document uploaded successfully"
  /\ messages # <<>>
  /\ IsUploadConfirmation(messages[Len(messages)])
  /\ \E u \in 1..Len(uploads) :
       /\ uploads[u].status = "ok"
       /\ uploads[u].http[1].ok
       /\ ~uploads[u].http[1].body[1].success

\* the dialog is idle and closed
ExportIdle ==
  ~isExporting /\ ~exportComplete /\ ~showExportModal /\ ~closeTimer
    /\ exportStep = <<>>

\* C24: once Export PDF has been clicked handleExport runs to its end and the
\* dialog comes back to its idle state (isExporting false, exportComplete
\* false) with onClose called, whatever the user does meanwhile, closing and
\* reopening the dialog included; no run of handleExport starts while
\* isExporting or exportComplete is true.
C24_ExportTerminates ==
  /\ [][ call'.fn = "handleExport"
           => /\ showExportModal /\ ~isExporting /\ ~exportComplete
              /\ exportStep = <<>> /\ ~closeTimer
              /\ isExporting'
        ]_vars
  /\ (isExporting ~> (exportComplete /\ exportProgress = 100 /\ ~isExporting))
  /\ (isExporting ~> ExportIdle)
  /\ (exportComplete ~> ExportIdle)

\* C24 witness: the dialog is idle and closed again after a run of
\* handleExport, which left the progress at 100.
C24_Witness ==
  /\ ExportIdle
  /\ exportProgress = 100
  /\ call = NoCall /\ toast = "none"
  /\ clipboard = <<>>

\* the queries of the quick-question buttons
QuickQueries == { insuranceQuestions[key] : key \in questionConfig }

\* the navigations to /chat started so far, pushed or still in their pause
Navigations == Len(goToChatPaused) + Len(pushed)

\* C25: from the Home page at most one navigation to /chat is started per
\* mount: once goToChat has been called isNavigating stays true for ever,
\* neither the form's submit handler nor a quick-question button calls
\* goToChat again, an input that is blank after trimming never navigates, and
\* the URL pushed carries the trimmed query, escaped.
C25_OneNavigation ==
  [][ /\ isNavigating => isNavigating'
      /\ Navigations' <= 1
      /\ (Navigations' = 1) = isNavigating'
      /\ call'.fn = "goToChat"
           => /\ ~isNavigating /\ Navigations = 0 /\ Navigations' = 1
              /\ call'.query # <<>>
              /\ Trim(call'.query) = call'.query
              /\ call'.query \in {Trim(homeInput)} \cup QuickQueries
              /\ loadingQuery' = <<call'.query>>
      /\ Trim(homeInput) = <<>> /\ call'.fn = "goToChat"
           => call'.query \in QuickQueries
      /\ call'.fn = "onSubmit" => Navigations' = Navigations
      /\ \A i \in 1..Len(pushed') :
           /\ pushed'[i] = chatUrl(loadingQuery'[1])
           /\ pushed'[i][1] = "/chat?query="
           /\ \A j \in 2..Len(pushed'[i]) : pushed'[i][j] \notin {" ", "?"}
           /\ decodeURIComponent(Tail(pushed'[i])) = Trim(loadingQuery'[1])
    ]_vars

\* C25 witness: the form was submitted with a padded text, the URL pushed
\* carries the text without its padding, and the chat page has sent it.
C25_Witness ==
  /\ homeInput = <<" ", "a", " ">>
  /\ isNavigating
  /\ pushed = << <<"/chat?query=", "a">> >>
  /\ goToChatPaused = <<>>
  /\ mounted /\ messages # <<>>
  /\ messages[1].content = <<"a">>

\* a quick question with its blanks and question mark escaped has been pushed
C25_WitnessQuick ==
  /\ pushed = << <<"/chat?query=", "Check", "%20", "my", "%20", "claim",
                   "%20", "status">> >>
  /\ searchParams = << insuranceQuestions.Status >>

\* the upload started last has not been answered yet
UploadPending ==
  uploads # <<>> /\ uploads[Len(uploads)].status = "pending"

C26_WitnessCapped ==
  /\ isUploading /\ UploadPending
  /\ uploadProgress = ProgressCap
  /\ ~progressInterval

====
